---- MODULE Spec2Model ----
(***************************************************************************)
(* Model of src/src/main.py: the XAUUSD dashboard script.                  *)
(*                                                                         *)
(* One script run is the sequence                                          *)
(*   load_gold (l.73) -> date_input (l.75-83) -> normalize (l.86-90)       *)
(*   -> filter_period (l.92-93) -> overview (l.101-184) -> risk (l.190-212)*)
(* and the framework reruns the whole script on every interaction (rerun). *)
(* The only state that survives a run is the st.cache_data store of        *)
(* load_gold (l.31), keyed by the timeframe argument.                      *)
(*                                                                         *)
(* The object store is an external collaborator: each get_object call      *)
(* answers with any object of the bounded family StoreResponses.           *)
(* Timestamps are instants day * TicksPerDay + tick; the columns the       *)
(* script only passes through (close, return, cum_return) carry a payload  *)
(* determined by the row's position in the stored file, so that every row  *)
(* is identifiable. The columns return, cum_return, ma20 and ma50 are      *)
(* taken to be present in every parsed table (the input schema); the       *)
(* columns timestamp and close may each be missing.                        *)
(***************************************************************************)
EXTENDS Integers, Sequences, FiniteSets, TLC

VARIABLES
    cache,       \* st.cache_data store of load_gold: timeframe -> <<>> or <<table>>
    pc,          \* position of the running script
    timeframe,   \* value of the sidebar selectbox (l.67-71)
    fetches,     \* get_object calls made by the current run
    df,          \* l.73  table returned by load_gold
    min_date,    \* l.75
    max_date,    \* l.76
    date_range,  \* l.78  value delivered by st.sidebar.date_input
    start_date,  \* l.87 / l.89
    end_date,    \* l.87 / l.90
    df_period,   \* l.93  filtered copy
    metric,      \* l.126 the value 1 + cum_ret handed to st.metric, <<>> when not shown
    log,         \* what the current run has executed and rendered
    error        \* exception that ended the current run, "none" otherwise

vars == <<cache, pc, timeframe, fetches, df, min_date, max_date, date_range,
          start_date, end_date, df_period, metric, log, error>>

-----------------------------------------------------------------------------
(* Bounds of the model *)

MaxRows == 2
MaxDay == 2

(* Two instants per calendar day, so that date truncation is not the identity *)
Ticks == {0, 1}
TicksPerDay == Cardinality(Ticks)

Days == 0..MaxDay

-----------------------------------------------------------------------------
(* Program constants and the data of a table *)

Timeframes == {"1d"}

Columns == {"timestamp", "close", "return", "cum_return", "ma20", "ma50"}

NoFrame == [cols |-> {}, rows |-> <<>>]

NoDate == 0 - 1

(* Payload of the pass-through columns of the row stored at position i *)
CloseAt(i) == 10 + ((3 * i) % 5)
CumReturnAt(i) == i
ReturnAt(i) == i + 1

(* One row of the stored file: the stored encoding of its timestamp and    *)
(* whether its return is present (missing returns are NaN)                 *)
StoredRow == [day : Days, tick : Ticks, has_return : BOOLEAN]

StoredFiles == UNION {[1..n -> StoredRow] : n \in 0..MaxRows}

StoredColumns == {Columns, Columns \ {"timestamp"}, Columns \ {"close"}}

(* Everything client.get_object / response.read can answer with *)
StoreResponses ==
    {[kind |-> k, cols |-> {}, rows |-> <<>>] :
        k \in {"NoSuchKey", "Unreachable", "NotParquet"}}
    \cup {[kind |-> "BadTimestamp", cols |-> Columns, rows |-> f] : f \in StoredFiles}
    \cup {[kind |-> "Parquet", cols |-> c, rows |-> f] :
            c \in StoredColumns, f \in StoredFiles}

NoRange == [is_tuple |-> FALSE, dates |-> <<>>]

-----------------------------------------------------------------------------
(* load_gold, l.31-57 *)

(* l.54: pd.to_datetime turns the stored encoding into an instant *)
to_datetime(day, tick) == day * TicksPerDay + tick

(* l.51 + l.54: the parsed rows, indexed 0..n-1 in file order, with the    *)
(* timestamp coerced. A column is read only when the table's cols name it. *)
read_parquet(obj) ==
    [i \in 1..Len(obj.rows) |->
        [idx        |-> i - 1,
         timestamp  |-> to_datetime(obj.rows[i].day, obj.rows[i].tick),
         close      |-> CloseAt(i),
         ret        |-> IF obj.rows[i].has_return THEN <<ReturnAt(i)>> ELSE <<>>,
         cum_return |-> CumReturnAt(i)]]

RowOrders(n) ==
    {p \in [1..n -> 1..n] : \A i, j \in 1..n : i # j => p[i] # p[j]}

IsSorted(rows) ==
    \A i \in 1..(Len(rows) - 1) : rows[i].timestamp <= rows[i + 1].timestamp

(* Faulty variant of sort_values: the stored order is kept *)
sort_values_skipped(rows) == {rows}

(* l.55: df.sort_values("timestamp"). The default sort is not stable, so   *)
(* rows with equal timestamps may come out in either order.                *)
sort_values(rows) ==
    {s \in {[i \in 1..Len(rows) |-> rows[p[i]]] : p \in RowOrders(Len(rows))} :
        IsSorted(s)}

(* l.45-57 for one answer of the store: the exception raised, or "none"    *)
load_error(obj) ==
    CASE obj.kind = "NoSuchKey"          -> "S3Error"          \* l.45
      [] obj.kind = "Unreachable"        -> "MaxRetryError"    \* l.45
      [] obj.kind = "NotParquet"         -> "ArrowInvalid"     \* l.51
      [] "timestamp" \notin obj.cols     -> "KeyError"         \* l.54
      [] obj.kind = "BadTimestamp"       -> "DateParseError"   \* l.54
      [] OTHER                           -> "none"

LoadErrors == {"S3Error", "MaxRetryError", "ArrowInvalid", "KeyError", "DateParseError"}

(* l.45-57: the tables load_gold can return for a store answer it accepts  *)
load_result(obj) ==
    {[cols |-> obj.cols, rows |-> s] : s \in sort_values(read_parquet(obj))}

(* A run that ends in an exception renders nothing further *)
Raise(e) ==
    /\ error' = e
    /\ pc' = "done"

(* The function body runs: one get_object, then parse, coerce, sort.       *)
(* st.cache_data stores the return value; an exception stores nothing.     *)
load_gold_miss ==
    \E obj \in StoreResponses :
        /\ fetches' = fetches + 1
        /\ IF load_error(obj) # "none"
           THEN /\ Raise(load_error(obj))
                /\ UNCHANGED <<cache, df, log>>
           ELSE \E t \in load_result(obj) :
                    /\ df' = t
                    /\ cache' = [cache EXCEPT ![timeframe] = <<t>>]
                    /\ log' = log \cup {"load_ok"}
                    /\ pc' = "date_input"
                    /\ error' = error

(* st.cache_data finds an entry for the argument: the body does not run *)
load_gold_hit ==
    /\ df' = cache[timeframe][1]
    /\ log' = log \cup {"load_ok"}
    /\ pc' = "date_input"
    /\ UNCHANGED <<cache, fetches, error>>

(* Faulty variant of load_gold: no memoisation, the body runs on every call *)
load_gold_uncached ==
    /\ pc = "load"
    /\ load_gold_miss
    /\ UNCHANGED <<timeframe, min_date, max_date, date_range, start_date,
                   end_date, df_period, metric>>

(* Faulty variant of load_gold: a failed attempt is followed by a second one *)
load_gold_retry ==
    /\ pc = "load"
    /\ IF cache[timeframe] # <<>>
       THEN load_gold_hit
       ELSE \E first \in StoreResponses :
                IF load_error(first) # "none"
                THEN \E obj \in StoreResponses :
                        /\ fetches' = fetches + 2
                        /\ IF load_error(obj) # "none"
                           THEN /\ Raise(load_error(obj))
                                /\ UNCHANGED <<cache, df, log>>
                           ELSE \E t \in load_result(obj) :
                                    /\ df' = t
                                    /\ cache' = [cache EXCEPT ![timeframe] = <<t>>]
                                    /\ log' = log \cup {"load_ok"}
                                    /\ pc' = "date_input"
                                    /\ error' = error
                ELSE load_gold_miss
    /\ UNCHANGED <<timeframe, min_date, max_date, date_range, start_date,
                   end_date, df_period, metric>>

(* l.73: df = load_gold(timeframe), through the cache of l.31 *)
load_gold ==
    /\ pc = "load"
    /\ IF cache[timeframe] # <<>> THEN load_gold_hit ELSE load_gold_miss
    /\ UNCHANGED <<timeframe, min_date, max_date, date_range, start_date,
                   end_date, df_period, metric>>

-----------------------------------------------------------------------------
(* Sidebar: the span of the table and the date-range widget, l.75-90 *)

(* Series.dt.date / Timestamp.date(): the calendar date of an instant *)
dt_date(ts) == ts \div TicksPerDay

MinTimestamp(rows) ==
    CHOOSE m \in {rows[i].timestamp : i \in 1..Len(rows)} :
        \A i \in 1..Len(rows) : m <= rows[i].timestamp

MaxTimestamp(rows) ==
    CHOOSE m \in {rows[i].timestamp : i \in 1..Len(rows)} :
        \A i \in 1..Len(rows) : m >= rows[i].timestamp

(* What st.date_input can hand back: a lone date, or a tuple of zero, one  *)
(* or two dates (a range being picked holds fewer than two), each within   *)
(* [min_value, max_value]. The script does not order-check a pair.         *)
WidgetValues(lo, hi) ==
    {[is_tuple |-> FALSE, dates |-> <<d>>] : d \in lo..hi}
    \cup {[is_tuple |-> TRUE, dates |-> <<>>]}
    \cup {[is_tuple |-> TRUE, dates |-> <<d>>] : d \in lo..hi}
    \cup {[is_tuple |-> TRUE, dates |-> <<a, b>>] : a \in lo..hi, b \in lo..hi}

(* l.75-83. On a table without rows Series.min() is NaT and NaT.date()     *)
(* raises ValueError.                                                      *)
date_input ==
    /\ pc = "date_input"
    /\ IF df.rows = <<>>
       THEN /\ Raise("ValueError")
            /\ UNCHANGED <<min_date, max_date, date_range>>
       ELSE /\ min_date' = dt_date(MinTimestamp(df.rows))
            /\ max_date' = dt_date(MaxTimestamp(df.rows))
            /\ date_range' \in WidgetValues(min_date', max_date')
            /\ pc' = "normalize"
            /\ error' = error
    /\ UNCHANGED <<cache, timeframe, fetches, df, start_date, end_date,
                   df_period, metric, log>>

(* l.86-90. Unpacking a tuple that does not hold exactly two dates raises  *)
(* ValueError.                                                             *)
normalize ==
    /\ pc = "normalize"
    /\ IF date_range.is_tuple
       THEN IF Len(date_range.dates) = 2
            THEN /\ start_date' = date_range.dates[1]
                 /\ end_date' = date_range.dates[2]
                 /\ log' = log \cup {"normalized"}
                 /\ pc' = "filter"
                 /\ error' = error
            ELSE /\ Raise("ValueError")
                 /\ UNCHANGED <<start_date, end_date, log>>
       ELSE /\ start_date' = date_range.dates[1]
            /\ end_date' = date_range.dates[1]
            /\ log' = log \cup {"normalized"}
            /\ pc' = "filter"
            /\ error' = error
    /\ UNCHANGED <<cache, timeframe, fetches, df, min_date, max_date,
                   date_range, df_period, metric>>

-----------------------------------------------------------------------------
(* Period filter, l.92-93 *)

(* Faulty variant of mask: the instant is compared, not its calendar date *)
mask_no_truncation(row, s, e) ==
    row.timestamp >= s /\ row.timestamp <= e

(* l.92: one element of the boolean mask *)
mask(row, s, e) ==
    dt_date(row.timestamp) >= s /\ dt_date(row.timestamp) <= e

(* l.93: df.loc[mask].copy() *)
loc_copy(frame, s, e) ==
    LET keep(row) == mask(row, s, e)
    IN  [cols |-> frame.cols, rows |-> SelectSeq(frame.rows, keep)]

(* Faulty variant of filter_period: df is narrowed in place *)
filter_period_in_place ==
    /\ pc = "filter"
    /\ df_period' = loc_copy(df, start_date, end_date)
    /\ df' = df_period'
    /\ log' = log \cup {"filtered"}
    /\ pc' = "overview"
    /\ UNCHANGED <<cache, timeframe, fetches, min_date, max_date, date_range,
                   start_date, end_date, metric, error>>

filter_period ==
    /\ pc = "filter"
    /\ df_period' = loc_copy(df, start_date, end_date)
    /\ log' = log \cup {"filtered"}
    /\ pc' = "overview"
    /\ UNCHANGED <<cache, timeframe, fetches, df, min_date, max_date,
                   date_range, start_date, end_date, metric, error>>

-----------------------------------------------------------------------------
(* Tabs, l.99-212 *)

(* Faulty variant of cum_ret: the first row of the selection is read *)
cum_ret_first(frame) == frame.rows[1].cum_return

(* l.115: df_period["cum_return"].iloc[-1] *)
cum_ret(frame) == frame.rows[Len(frame.rows)].cum_return

(* l.116 *)
close_min(frame) ==
    CHOOSE m \in {frame.rows[i].close : i \in 1..Len(frame.rows)} :
        \A i \in 1..Len(frame.rows) : m <= frame.rows[i].close

(* l.117 *)
close_max(frame) ==
    CHOOSE m \in {frame.rows[i].close : i \in 1..Len(frame.rows)} :
        \A i \in 1..Len(frame.rows) : m >= frame.rows[i].close

(* l.119, l.196: df_period["return"].dropna() *)
dropna_returns(frame) ==
    LET present(row) == row.ret # <<>>
        kept == SelectSeq(frame.rows, present)
    IN  [i \in 1..Len(kept) |-> kept[i].ret[1]]

(* l.115-147: the KPIs of a selection that has rows. A table without the   *)
(* close column raises KeyError at l.116, before anything is shown.        *)
(* Series.std() of fewer than two values is NaN.                           *)
overview_metrics ==
    IF "close" \notin df_period.cols
    THEN /\ log' = log \cup {"metrics_eval"}
         /\ Raise("KeyError")
         /\ metric' = metric
    ELSE /\ metric' = <<[cum_multiple |-> 1 + cum_ret(df_period),
                         close_min    |-> close_min(df_period),
                         close_max    |-> close_max(df_period),
                         returns      |-> dropna_returns(df_period),
                         vol_is_nan   |-> Len(dropna_returns(df_period)) < 2]>>
         /\ log' = log \cup {"metrics_eval", "metrics", "fig_cum", "fig_price"}
         /\ pc' = "risk"
         /\ error' = error

(* Faulty variant of overview: the KPIs are computed without the emptiness test;   *)
(* iloc[-1] of an empty column raises IndexError                           *)
overview_unguarded ==
    /\ pc = "overview"
    /\ IF df_period.rows # <<>>
       THEN overview_metrics
       ELSE /\ log' = log \cup {"metrics_eval"}
            /\ Raise("IndexError")
            /\ metric' = metric
    /\ UNCHANGED <<cache, timeframe, fetches, df, min_date, max_date,
                   date_range, start_date, end_date, df_period>>

(* l.101-184: the overview tab. st.stop() ends the run without an error.   *)
overview ==
    /\ pc = "overview"
    /\ IF df_period.rows # <<>>
       THEN overview_metrics
       ELSE /\ log' = log \cup {"warn_empty", "stopped"}
            /\ pc' = "done"
            /\ UNCHANGED <<metric, error>>
    /\ UNCHANGED <<cache, timeframe, fetches, df, min_date, max_date,
                   date_range, start_date, end_date, df_period>>

(* l.190-212: the risk tab *)
risk ==
    /\ pc = "risk"
    /\ IF dropna_returns(df_period) = <<>>
       THEN log' = log \cup {"warn_returns"}
       ELSE log' = log \cup {"fig_hist"}
    /\ pc' = "done"
    /\ UNCHANGED <<cache, timeframe, fetches, df, min_date, max_date,
                   date_range, start_date, end_date, df_period, metric, error>>

-----------------------------------------------------------------------------
(* The framework around the script *)

(* A user interaction: the script runs again from the top, l.1. The cache  *)
(* of load_gold is all that is carried over.                               *)
rerun ==
    /\ pc = "done"
    /\ pc' = "load"
    /\ timeframe' \in Timeframes
    /\ fetches' = 0
    /\ df' = NoFrame
    /\ min_date' = NoDate
    /\ max_date' = NoDate
    /\ date_range' = NoRange
    /\ start_date' = NoDate
    /\ end_date' = NoDate
    /\ df_period' = NoFrame
    /\ metric' = <<>>
    /\ log' = {}
    /\ error' = "none"
    /\ UNCHANGED cache

(* l.31: st.cache_data keeps no ttl and no max_entries; its entries go     *)
(* only when the process restarts or the cache is cleared, between runs.   *)
clear_cache ==
    /\ pc = "done"
    /\ \E tf \in Timeframes : cache[tf] # <<>>
    /\ cache' = [tf \in Timeframes |-> <<>>]
    /\ UNCHANGED <<pc, timeframe, fetches, df, min_date, max_date, date_range,
                   start_date, end_date, df_period, metric, log, error>>

Init ==
    /\ cache = [tf \in Timeframes |-> <<>>]
    /\ pc = "load"
    /\ timeframe \in Timeframes
    /\ fetches = 0
    /\ df = NoFrame
    /\ min_date = NoDate
    /\ max_date = NoDate
    /\ date_range = NoRange
    /\ start_date = NoDate
    /\ end_date = NoDate
    /\ df_period = NoFrame
    /\ metric = <<>>
    /\ log = {}
    /\ error = "none"

Next ==
    \/ load_gold
    \/ date_input
    \/ normalize
    \/ filter_period
    \/ overview
    \/ risk
    \/ rerun
    \/ clear_cache

Spec == Init /\ [][Next]_vars

-----------------------------------------------------------------------------
(* Properties *)

(* Row i of the loaded table lies in the selected period, stated on days:  *)
(* some day d of [start_date, end_date] contains the instant               *)
InPeriod(i) ==
    \E d \in Days :
        /\ start_date <= d
        /\ d <= end_date
        /\ d * TicksPerDay <= df.rows[i].timestamp
        /\ df.rows[i].timestamp < (d + 1) * TicksPerDay

PositionInDf(row) == CHOOSE i \in 1..Len(df.rows) : df.rows[i] = row

Filtered == "filtered" \in log

(* C1: the period filter returns exactly the rows of the loaded table      *)
(* whose calendar date lies in [start_date, end_date], in the order of the *)
(* loaded table; it is empty iff no row qualifies, so a reversed range     *)
(* gives an empty table and no error.                                      *)
C1_FilterCorrect ==
    Filtered =>
        /\ df_period.cols = df.cols
        /\ {df_period.rows[k] : k \in 1..Len(df_period.rows)}
              = {df.rows[i] : i \in {j \in 1..Len(df.rows) : InPeriod(j)}}
        /\ Len(df_period.rows) = Cardinality({j \in 1..Len(df.rows) : InPeriod(j)})
        /\ \A k, l \in 1..Len(df_period.rows) :
              k < l => PositionInDf(df_period.rows[k]) < PositionInDf(df_period.rows[l])
        /\ (df_period.rows = <<>>) <=> (\A j \in 1..Len(df.rows) : ~InPeriod(j))
        /\ start_date > end_date => (df_period.rows = <<>> /\ error = "none")

(* A selection that keeps some rows and drops others, one kept row lying   *)
(* after midnight of its day                                               *)
C1_Witness ==
    /\ Filtered
    /\ df_period.rows # <<>>
    /\ Len(df_period.rows) < Len(df.rows)
    /\ \E k \in 1..Len(df_period.rows) :
          df_period.rows[k].timestamp > end_date * TicksPerDay

NonDecreasing(rows) ==
    \A i, j \in 1..Len(rows) : i < j => rows[i].timestamp <= rows[j].timestamp

(* C2: every table load_gold returns, fresh or from the cache, has its     *)
(* timestamp column non-decreasing, whatever the stored row order.         *)
C2_SortInvariant ==
    /\ "load_ok" \in log => NonDecreasing(df.rows)
    /\ \A tf \in Timeframes : cache[tf] # <<>> => NonDecreasing(cache[tf][1].rows)

(* A table served from the cache whose stored file was not in time order *)
C2_Witness ==
    /\ "load_ok" \in log
    /\ fetches = 0
    /\ \E i, j \in 1..Len(df.rows) :
          /\ i < j
          /\ df.rows[i].idx > df.rows[j].idx
          /\ df.rows[i].timestamp < df.rows[j].timestamp

(* C3: the KPIs are evaluated only on a selection with rows; a run whose   *)
(* selection is empty shows the warning and stops, with no KPI evaluated   *)
(* and no exception.                                                       *)
C3_EmptySelectionShortCircuit ==
    /\ "metrics_eval" \in log => (Filtered /\ df_period.rows # <<>>)
    /\ (Filtered /\ df_period.rows = <<>> /\ pc \notin {"overview"}) =>
          /\ pc = "done"
          /\ {"warn_empty", "stopped"} \subseteq log
          /\ "metrics_eval" \notin log
          /\ metric = <<>>
          /\ error = "none"

(* A well-ordered range that falls in a gap of the table *)
C3_Witness ==
    /\ pc = "done"
    /\ Filtered
    /\ df_period.rows = <<>>
    /\ start_date <= end_date
    /\ "warn_empty" \in log

(* C4: once load_gold has returned for a timeframe, every later call with  *)
(* that timeframe returns the cached table without a fetch, and the entry  *)
(* changes only when the cache is cleared.                                 *)
C4_CachedLoadSkipsFetch ==
    [][/\ (pc = "load" /\ cache[timeframe] # <<>>) =>
            /\ df' = cache[timeframe][1]
            /\ "load_ok" \in log'
            /\ fetches' = fetches
            /\ cache' = cache
       /\ \A tf \in Timeframes :
            (cache[tf] # <<>> /\ cache'[tf] # cache[tf]) => clear_cache]_vars

(* A run that finished on a table served from the cache *)
C4_Witness ==
    /\ pc = "done"
    /\ "load_ok" \in log
    /\ fetches = 0
    /\ "fig_hist" \in log

(* C5: load_gold fails, and returns and caches nothing, when the buffer    *)
(* does not parse or the table lacks the timestamp or the close column.    *)
C5_LoaderRejectsMissingColumns ==
    /\ "load_ok" \in log => {"timestamp", "close"} \subseteq df.cols
    /\ \A tf \in Timeframes :
          cache[tf] # <<>> => {"timestamp", "close"} \subseteq cache[tf][1].cols

C7_LoadedTableNeverMutated ==
    /\ []((("load_ok" \in log) /\ cache[timeframe] # <<>>) => cache[timeframe][1] = df)
    /\ [][("load_ok" \in log /\ ~rerun) =>
            (df' = df /\ (cache' = cache \/ clear_cache))]_vars

(* A finished run whose selection dropped rows of the loaded table *)
C7_Witness ==
    /\ pc = "done"
    /\ "fig_hist" \in log
    /\ Len(df_period.rows) < Len(df.rows)
    /\ cache[timeframe] = <<df>>

(* C8: every value the date-range widget delivers is normalised into a     *)
(* (start_date, end_date) pair, a lone date d into (d, d) and a pair       *)
(* (a, b) into (a, b), and the step never fails.                           *)
C8_NormalizationNeverFails ==
    (date_range # NoRange /\ pc # "normalize") =>
        /\ "normalized" \in log
        /\ ~date_range.is_tuple =>
              (start_date = date_range.dates[1] /\ end_date = date_range.dates[1])
        /\ (date_range.is_tuple /\ Len(date_range.dates) = 2) =>
              (start_date = date_range.dates[1] /\ end_date = date_range.dates[2])

(* C9: a run makes at most one fetch and never retries; a failure inside   *)
(* load_gold ends the run with that error, caches nothing, and no filter   *)
(* or KPI step runs; the next run fetches again, once.                     *)
C9_SingleAttemptErrorsSurface ==
    /\ [](/\ fetches <= 1
          /\ (error # "none" /\ "load_ok" \notin log) =>
                /\ error \in LoadErrors
                /\ pc = "done"
                /\ fetches = 1
                /\ cache[timeframe] = <<>>
                /\ log = {}
                /\ df = NoFrame /\ df_period = NoFrame /\ metric = <<>>)
    /\ [][(pc = "load" /\ cache[timeframe] = <<>>) => fetches' = 1]_vars

(* A run ended by a failed load *)
C9_Witness ==
    /\ pc = "done"
    /\ error \in LoadErrors
    /\ "load_ok" \notin log
    /\ fetches = 1

SelectionHasRows == Filtered /\ df_period.rows # <<>>

SelectionHasReturn ==
    \E k \in 1..Len(df_period.rows) : df_period.rows[k].ret # <<>>

(* C10: in a run that loaded a table, the histogram is rendered iff the    *)
(* selection has rows and a non-missing return; the risk warning is shown  *)
(* iff the selection has rows and no return; an empty selection stops the  *)
(* run in the overview tab with no chart and no risk warning.              *)
C10_RiskTabOutcome ==
    (pc = "done" /\ "load_ok" \in log) =>
        /\ "fig_hist" \in log <=> (SelectionHasRows /\ SelectionHasReturn)
        /\ "warn_returns" \in log <=> (SelectionHasRows /\ ~SelectionHasReturn)
        /\ (Filtered /\ df_period.rows = <<>>) =>
              /\ "stopped" \in log
              /\ log \cap {"fig_hist", "warn_returns", "fig_cum", "fig_price"} = {}

====
